---- MODULE Spec2Model ----
(***************************************************************************)
(* TaskRelay: the client access layer (src/config/firebase.js), the role   *)
(* router (src/navigation/AppNavigator.js) and the ticket screens, as one  *)
(* app instance running against the hosted auth service and document      *)
(* store.                                                                  *)
(*                                                                         *)
(* Every async function is cut at its awaits: a call in flight is a record *)
(* holding what the function has captured so far and the await it is      *)
(* suspended at; one action resumes it up to its next await.  The auth     *)
(* listener is invoked as soon as the session changes: while a             *)
(* notification is pending (authEvent), nothing else runs.                 *)
(***************************************************************************)
EXTENDS Integers, Sequences, FiniteSets, TLC

(* ---------------------------------------------------------------- bounds *)
MaxTickets  == 1    \* tickets the store may hold
MaxUpdates  == 1    \* committed status updates
MaxHandlers == 1    \* auth handlers suspended at an await at one time
MaxAuthCalls == 1   \* signUp and signIn calls in flight at one time
MaxStoreTickets == 2 \* tickets the store may hold when other devices write to it too

(* ------------------------------------------------------------- constants *)
MinPasswordLength == 6   \* firebase.js:47
DefaultRetries    == 3   \* firebase.js:135

NoUser == 0              \* null user / no identity (uids are 1, 2, ...)
Null   == "null"         \* a null string-valued state

Emails     == {"a@x", "b@x"}
Uids       == 1..Cardinality(Emails)
GoodPass   == "secret"
Roles      == {"client", "admin"}                             \* firebase.js:50
TicketTypes == {"bug", "feature"}                              \* firebase.js:184
validStatuses == <<"open", "in-progress", "resolved", "closed">>   \* firebase.js:308

(* inputs the callers are drawn from: every valid combination that differs in
   what is stored, and one input for each way of being invalid *)
BadEmail == "a.x"     \* a malformed address
SignUpInputs ==
    {<<e, GoodPass, "Ann", r>> : e \in Emails, r \in Roles}
    \cup {<<"", GoodPass, "Ann", "client">>, <<"a@x", "", "Ann", "client">>,
          <<"a@x", "abc", "Ann", "admin">>, <<"a@x", GoodPass, "", "client">>,
          <<"a@x", GoodPass, "Ann", "">>, <<"b@x", GoodPass, "Ann", "guest">>}
SignInInputs ==
    {<<e, GoodPass>> : e \in Emails}
    \cup {<<"", GoodPass>>, <<"a@x", "">>, <<BadEmail, GoodPass>>, <<"a@x", "wrong!">>}
SubmitInputs ==
    {<<<<"a">>, <<"a">>, "bug">>, <<<<" ", "a", " ">>, <<" ", "a">>, "feature">>,
     <<<<>>, <<"a">>, "bug">>, <<<<" ">>, <<"a">>, "bug">>,
     <<<<"a">>, <<>>, "feature">>, <<<<"a">>, <<" ">>, "feature">>,
     <<<<"a">>, <<"a">>, "">>, <<<<"a">>, <<"a">>, "task">>}
StatusInputs == {"open", "resolved", "", "done"}
\* arguments of a direct call of createTicket: padded, whitespace-only, empty,
\* and a type that is missing or not offered
CreateTicketInputs ==
    {<<<<" ", "b">>, <<"b", " ">>, "bug">>, <<<<" ">>, <<"b">>, "bug">>,
     <<<<>>, <<"b">>, "bug">>, <<<<"b">>, <<>>, "feature">>,
     <<<<"b">>, <<"b">>, "">>, <<<<"b">>, <<"b">>, "task">>}

VARIABLES
    accounts,     \* auth service: uid -> account (the uid it issues for an email is fixed)
    authUser,     \* authInstance.currentUser: a uid or NoUser
    authEvent,    \* the pending onAuthStateChanged notification: <<>> or <<uid>>
    users,        \* Firestore 'users' collection: uid -> profile document
    tickets,      \* Firestore 'tickets' collection, in creation order; id = index
    now,          \* the store's clock, the source of serverTimestamp()
    user,         \* AppNavigator state
    userRole,
    error,
    loading,
    handlers,     \* auth handlers suspended at an await
    signups,      \* signUp calls suspended at an await
    signins,      \* signIn calls suspended at their await
    creates,      \* createTicket calls suspended at an await
    clientHome,   \* ClientHomeScreen: its subscription and state
    adminHome,    \* AdminHomeScreen: its subscription and state
    detail,       \* TicketDetailScreen's route.params.ticket, <<>> when not shown
    form,         \* CreateTicketScreen state
    updates,      \* number of committed status updates so far
    lastOp        \* what the step just taken did and returned

vars == <<accounts, authUser, authEvent, users, tickets, now, user, userRole,
          error, loading, handlers, signups, signins, creates, clientHome,
          adminHome,
          detail, form, updates, lastOp>>

backend == <<accounts, users, tickets, now, updates>>
router  == <<user, userRole, error, loading>>
screens == <<clientHome, adminHome, detail, form>>

(* -------------------------------------------------------------- helpers *)
NoDoc == [exists |-> FALSE, email |-> "", name |-> "", role |-> "", createdAt |-> 0]

\* the record of a step: the operation that returned in it, its outcome ("ok",
\* "rejected" for an error thrown before any remote call, or the message of
\* the error), and what it was about.  Steps that return nothing of interest
\* to a property below record NoOp.
Op(op, res, who, id, val) ==
    [op |-> op, res |-> res, who |-> who, id |-> id, val |-> val]

NoOp == Op("none", "", NoUser, 0, "")

RemoveAt(s, i) == SubSeq(s, 1, i - 1) \o SubSeq(s, i + 1, Len(s))

Includes(seq, x) == \E i \in 1..Len(seq) : seq[i] = x

RECURSIVE TrimStart(_)
TrimStart(s) == IF s # <<>> /\ Head(s) = " " THEN TrimStart(Tail(s)) ELSE s

RECURSIVE TrimEnd(_)
TrimEnd(s) ==
    IF s # <<>> /\ s[Len(s)] = " " THEN TrimEnd(SubSeq(s, 1, Len(s) - 1)) ELSE s

\* String.prototype.trim
Trim(s) == TrimEnd(TrimStart(s))

NoAccount == [exists |-> FALSE, email |-> "", password |-> ""]

Account(email, password) == [exists |-> TRUE, email |-> email, password |-> password]

\* the opaque id the auth service issues for the account of an email
NewUid(e) == IF e = "a@x" THEN 1 ELSE 2

\* the uid of the account registered for an email, NoUser when there is none
UidOfEmail(e) ==
    IF \E u \in Uids : accounts[u].exists /\ accounts[u].email = e
    THEN CHOOSE u \in Uids : accounts[u].exists /\ accounts[u].email = e
    ELSE NoUser

\* currentUser.email
EmailOf(uid) == IF uid = NoUser THEN "" ELSE accounts[uid].email

(* --------------------------------------------------- the document store *)
Profile(email, name, role, at) ==
    [exists |-> TRUE, email |-> email, name |-> name, role |-> role, createdAt |-> at]

\* a snapshot document: { id: doc.id, ...doc.data() }
SnapDoc(tks, i) ==
    [id |-> i, title |-> tks[i].title, description |-> tks[i].description,
     type |-> tks[i].type, status |-> tks[i].status, clientId |-> tks[i].clientId,
     clientName |-> tks[i].clientName, clientEmail |-> tks[i].clientEmail,
     createdAt |-> tks[i].createdAt, updatedAt |-> tks[i].updatedAt]

\* faulty variant of OrderByCreatedAtDesc: oldest first
RECURSIVE OrderByCreatedAtAsc(_, _)
OrderByCreatedAtAsc(tks, S) ==
    IF S = {} THEN <<>>
    ELSE LET m == CHOOSE i \in S : \A j \in S : tks[i].createdAt <= tks[j].createdAt
         IN  <<SnapDoc(tks, m)>> \o OrderByCreatedAtAsc(tks, S \ {m})

\* orderBy('createdAt', 'desc') over the documents with ids in S
RECURSIVE OrderByCreatedAtDesc(_, _)
OrderByCreatedAtDesc(tks, S) ==
    IF S = {} THEN <<>>
    ELSE LET m == CHOOSE i \in S : \A j \in S : tks[j].createdAt <= tks[i].createdAt
         IN  <<SnapDoc(tks, m)>> \o OrderByCreatedAtDesc(tks, S \ {m})

\* where('clientId', '==', uid)
WhereClientId(tks, uid) == {i \in 1..Len(tks) : tks[i].clientId = uid}

\* the query of getMyTickets for the uid it captured
MyTicketsQuery(tks, uid) == OrderByCreatedAtDesc(tks, WhereClientId(tks, uid))

\* the query of getAllTickets
AllTicketsQuery(tks) == OrderByCreatedAtDesc(tks, 1..Len(tks))

(* ------------------------------------------------------- ticket screens *)
HomeUnmounted ==
    [mounted |-> FALSE, sub |-> <<>>, dirty |-> FALSE, tickets |-> <<>>,
     loading |-> TRUE, refreshing |-> FALSE, error |-> Null]

\* getMyTickets as ClientHomeScreen's useEffect calls it: cur is
\* authInstance.currentUser at that moment
getMyTickets(cur) ==
    IF cur = NoUser
    THEN [HomeUnmounted EXCEPT !.mounted = TRUE, !.loading = FALSE,
                               !.error = "You must be logged in to view tickets"]
    ELSE [HomeUnmounted EXCEPT !.mounted = TRUE, !.sub = <<cur>>, !.dirty = TRUE]

\* getAllTickets as AdminHomeScreen's useEffect calls it
getAllTickets ==
    [HomeUnmounted EXCEPT !.mounted = TRUE, !.sub = <<NoUser>>, !.dirty = TRUE]

\* CreateTicketScreen's initial state
FormInit == [loading |-> FALSE, title |-> <<>>, description |-> <<>>, type |-> "bug"]

(* ---------------------------------------------------------- role router *)
\* faulty variant of Render: the loading flag is ignored
Render_IgnoringLoading(u, r, l) ==
    IF u = NoUser THEN "Auth"
    ELSE IF r = "client" THEN "ClientApp"
    ELSE IF r = "admin" THEN "DeveloperApp"
    ELSE "blank"

\* what AppNavigator renders for a given state
Render(u, r, l) ==
    IF l THEN "none"
    ELSE IF u = NoUser THEN "Auth"
    ELSE IF r = "client" THEN "ClientApp"
    ELSE IF r = "admin" THEN "DeveloperApp"
    ELSE "blank"

Screen == Render(user, userRole, loading)

\* faulty variant of ScreensOnRender: the effects return no cleanup, a screen
\* that leaves the tree keeps its subscription
ScreensOnRender_NoCleanup(old, new, cur) ==
    /\ clientHome' = IF new # "ClientApp" THEN [clientHome EXCEPT !.mounted = FALSE]
                     ELSE IF old = "ClientApp" THEN clientHome
                     ELSE getMyTickets(cur)
    /\ adminHome' = IF new # "DeveloperApp" THEN [adminHome EXCEPT !.mounted = FALSE]
                    ELSE IF old = "DeveloperApp" THEN adminHome
                    ELSE getAllTickets
    /\ detail' = IF new = "DeveloperApp" /\ old = "DeveloperApp" THEN detail ELSE <<>>
    /\ form' = IF new = "ClientApp" /\ old = "ClientApp" THEN form ELSE FormInit

\* the screens after AppNavigator re-renders from `old` to `new`: screens that
\* leave the tree run their effect cleanup (unsubscribe), screens that enter it
\* run their effect (subscribe) with cur as the current user
ScreensOnRender(old, new, cur) ==
    /\ clientHome' = IF new # "ClientApp" THEN HomeUnmounted
                     ELSE IF old = "ClientApp" THEN clientHome
                     ELSE getMyTickets(cur)
    /\ adminHome' = IF new # "DeveloperApp" THEN HomeUnmounted
                    ELSE IF old = "DeveloperApp" THEN adminHome
                    ELSE getAllTickets
    /\ detail' = IF new = "DeveloperApp" /\ old = "DeveloperApp" THEN detail ELSE <<>>
    /\ form' = IF new = "ClientApp" /\ old = "ClientApp" THEN form ELSE FormInit

\* faulty variant of SetRouter: the role is only ever set, never cleared
SetRouter_KeepingRole(u, r, e, l, cur) ==
    /\ user' = u
    /\ userRole' = IF r = Null THEN userRole ELSE r
    /\ error' = e
    /\ loading' = l
    /\ ScreensOnRender(Screen, Render(u, userRole', l), cur)

\* setUser/setUserRole/setError/setLoading followed by the re-render
SetRouter(u, r, e, l, cur) ==
    /\ user' = u
    /\ userRole' = r
    /\ error' = e
    /\ loading' = l
    /\ ScreensOnRender(Screen, Render(u, r, l), cur)

Idle == authEvent = <<>>

(* ----------------------------------------------------------------- Init *)
\* the profile of the identity a restored session belongs to: none (signUp
\* failed after the identity was created) or one that signUp wrote
PersistedProfiles ==
    {NoDoc} \cup {Profile("a@x", "Ann", r, 1) : r \in Roles}

\* a first start, or a start with the session of an earlier run restored
Init ==
    /\ \/ /\ accounts = [u \in Uids |-> NoAccount]
          /\ users = [u \in Uids |-> NoDoc]
          /\ authUser = NoUser
       \/ \E p \in PersistedProfiles :
          /\ accounts = [u \in Uids |-> IF u = 1 THEN Account("a@x", GoodPass)
                                                 ELSE NoAccount]
          /\ users = [u \in Uids |-> IF u = 1 THEN p ELSE NoDoc]
          /\ authUser = 1
    /\ authEvent = <<authUser>>
    /\ tickets = <<>>
    /\ now = 1
    /\ user = NoUser
    /\ userRole = Null
    /\ error = Null
    /\ loading = TRUE
    /\ handlers = <<>>
    /\ signups = <<>>
    /\ signins = <<>>
    /\ creates = <<>>
    /\ clientHome = HomeUnmounted
    /\ adminHome = HomeUnmounted
    /\ detail = <<>>
    /\ form = FormInit
    /\ updates = 0
    /\ lastOp = NoOp

(* --------------------------------------------- AppNavigator auth handler *)
\* the listener body up to its first await
onAuthStateChanged ==
    /\ authEvent # <<>>
    /\ LET authUserArg == authEvent[1] IN
         IF authUserArg # NoUser
         THEN \* await getUserRole(authUser.uid): suspended at its getDoc
              /\ handlers' = Append(handlers,
                     [au |-> authUserArg, retries |-> DefaultRetries, pc |-> "getDoc"])
              /\ UNCHANGED <<router, screens>>
              /\ lastOp' = NoOp
         ELSE /\ SetRouter(NoUser, Null, Null, FALSE, authUser)
              /\ UNCHANGED handlers
              /\ lastOp' = Op("onAuthStateChanged", "ok", NoUser, NoUser, Screen)
    /\ authEvent' = <<>>
    /\ UNCHANGED <<backend, authUser, signups, signins, creates>>

\* faulty variant of getUserRole: any profile with a role resolves to client
getUserRole_AlwaysClient(doc, retries, fetchFails) ==
    IF fetchFails THEN "Failed to get user role"
    ELSE IF ~doc.exists
         THEN IF retries > 0 THEN "retry" ELSE "User profile not found"
    ELSE IF doc.role = "" THEN "User role not found"
    ELSE "client"

\* faulty variant of getUserRole: the retry budget is never checked
getUserRole_NoBudget(doc, retries, fetchFails) ==
    IF fetchFails THEN "Failed to get user role"
    ELSE IF ~doc.exists THEN "retry"
    ELSE IF doc.role = "" THEN "User role not found"
    ELSE doc.role

\* faulty variant of getUserRole: a missing profile fails at the first read
getUserRole_NoRetry(doc, retries, fetchFails) ==
    IF fetchFails THEN "Failed to get user role"
    ELSE IF ~doc.exists THEN "User profile not found"
    ELSE IF doc.role = "" THEN "User role not found"
    ELSE doc.role

\* faulty variant of getUserRole: a profile still missing after the retries
\* resolves to an empty role instead of throwing
getUserRole_MissingAsEmpty(doc, retries, fetchFails) ==
    IF fetchFails THEN "Failed to get user role"
    ELSE IF ~doc.exists
         THEN IF retries > 0 THEN "retry" ELSE ""
    ELSE IF doc.role = "" THEN "User role not found"
    ELSE doc.role

\* getUserRole's outcome on one read of the profile document:
\* a role, "retry", or the message of the error it throws
getUserRole(doc, retries, fetchFails) ==
    IF fetchFails THEN "Failed to get user role"
    ELSE IF ~doc.exists
         THEN IF retries > 0 THEN "retry" ELSE "User profile not found"
    ELSE IF doc.role = "" THEN "User role not found"
    ELSE doc.role

RoleErrors == {"Failed to get user role", "User profile not found", "User role not found"}

\* handler i resumes from getUserRole's getDoc
HandlerGetDoc(i, fetchFails) ==
    /\ Idle
    /\ i \in 1..Len(handlers)
    /\ handlers[i].pc = "getDoc"
    /\ LET h == handlers[i]
           r == getUserRole(users[h.au], h.retries, fetchFails)
       IN  \/ /\ r = "retry"
              \* wait 500ms, then getUserRole(userId, retries - 1)
              /\ handlers' = [handlers EXCEPT ![i].retries = h.retries - 1]
              /\ UNCHANGED <<router, screens>>
              /\ lastOp' = NoOp
           \/ /\ r \in RoleErrors
              \* catch: setError(err.message); await signOut()
              /\ handlers' = [handlers EXCEPT ![i].pc = "signOut"]
              /\ SetRouter(user, userRole, r, loading, authUser)
              /\ lastOp' = NoOp
           \/ /\ r # "retry" /\ r \notin RoleErrors
              \* setUserRole(role); setUser(authUser); setError(null); setLoading(false)
              /\ handlers' = RemoveAt(handlers, i)
              /\ SetRouter(h.au, r, Null, FALSE, authUser)
              /\ lastOp' = Op("onAuthStateChanged", "ok", NoUser, h.au, r)
    /\ UNCHANGED <<backend, authUser, authEvent, signups, signins, creates>>

\* firebaseSignOut: the session ends; listeners are notified when it changed
SessionAfterSignOut ==
    /\ authUser' = NoUser
    /\ authEvent' = IF authUser # NoUser THEN <<NoUser>> ELSE <<>>

\* faulty variant of HandlerSignOut: setLoading(false) sits at the end of the
\* catch block instead of in a finally
HandlerSignOut_NoFinally(i, signOutFails) ==
    /\ Idle
    /\ i \in 1..Len(handlers)
    /\ handlers[i].pc = "signOut"
    /\ handlers' = RemoveAt(handlers, i)
    /\ IF signOutFails
       THEN /\ UNCHANGED <<authUser, authEvent>>
            /\ SetRouter(user, userRole, error, loading, authUser)
            /\ lastOp' = Op("onAuthStateChanged", "Failed to sign out",
                            NoUser, handlers[i].au, "failed")
       ELSE /\ SessionAfterSignOut
            /\ SetRouter(NoUser, Null, error, FALSE, NoUser)
            /\ lastOp' = Op("onAuthStateChanged", "signed out",
                            NoUser, handlers[i].au, "failed")
    /\ UNCHANGED <<backend, signups, signins, creates>>

\* handler i resumes from the signOut() of its catch block
HandlerSignOut(i, signOutFails) ==
    /\ Idle
    /\ i \in 1..Len(handlers)
    /\ handlers[i].pc = "signOut"
    /\ handlers' = RemoveAt(handlers, i)
    /\ IF signOutFails
       THEN \* signOut throws out of the catch block; finally: setLoading(false)
            /\ UNCHANGED <<authUser, authEvent>>
            /\ SetRouter(user, userRole, error, FALSE, authUser)
            /\ lastOp' = Op("onAuthStateChanged", "Failed to sign out",
                            NoUser, handlers[i].au, "failed")
       ELSE \* setUser(null); setUserRole(null); finally: setLoading(false)
            /\ SessionAfterSignOut
            /\ SetRouter(NoUser, Null, error, FALSE, NoUser)
            /\ lastOp' = Op("onAuthStateChanged", "signed out",
                            NoUser, handlers[i].au, "failed")
    /\ UNCHANGED <<backend, signups, signins, creates>>

(* --------------------------------------------------------------- signUp *)
\* faulty variant of signUpValidate: the role is only checked for presence
signUpValidate_AnyRole(email, password, name, role) ==
    IF email = "" \/ password = "" \/ name = "" \/ role = ""
    THEN "All fields are required"
    ELSE IF Len(password) < MinPasswordLength
    THEN "Password must be at least 6 characters"
    ELSE "ok"

\* signUp's input validation: "ok" or the message of the error thrown
signUpValidate(email, password, name, role) ==
    IF email = "" \/ password = "" \/ name = "" \/ role = ""
    THEN "All fields are required"
    ELSE IF Len(password) < MinPasswordLength
    THEN "Password must be at least 6 characters"
    ELSE IF role \notin Roles
    THEN "Role must be either \"client\" or \"admin\""
    ELSE "ok"

\* handleSignup -> signUp, up to the await of createUserWithEmailAndPassword
SignUpCall(email, password, name, role) ==
    /\ Idle
    /\ Screen = "Auth"
    /\ LET v == signUpValidate(email, password, name, role) IN
         IF v # "ok"
         THEN /\ UNCHANGED signups
              /\ lastOp' = Op("signUp", v, NoUser, NoUser, "")
         ELSE /\ Len(signups) + Len(signins) < MaxAuthCalls
              /\ signups' = Append(signups,
                     [email |-> email, password |-> password, name |-> name,
                      role |-> role, uid |-> NoUser, pc |-> "createUser"])
              /\ lastOp' = NoOp
    /\ UNCHANGED <<backend, authUser, authEvent, router, handlers, signins, creates,
                   screens>>

\* the auth service's answer to createUserWithEmailAndPassword
createUserResult(email) ==
    IF email = BadEmail THEN "auth/invalid-email"
    ELSE IF UidOfEmail(email) # NoUser THEN "auth/email-already-in-use"
    ELSE "ok"

\* signUp i resumes from createUserWithEmailAndPassword
SignUpCreateUser(i) ==
    /\ Idle
    /\ i \in 1..Len(signups)
    /\ signups[i].pc = "createUser"
    /\ LET c == signups[i]
           r == createUserResult(c.email)
           uid == NewUid(c.email)
       IN  IF r # "ok"
           THEN /\ signups' = RemoveAt(signups, i)
                /\ UNCHANGED <<accounts, authUser, authEvent>>
                /\ lastOp' = NoOp
           ELSE /\ Len(handlers) < MaxHandlers
                /\ accounts' = [accounts EXCEPT ![uid] = Account(c.email, c.password)]
                /\ authUser' = uid
                /\ authEvent' = <<uid>>
                /\ signups' = [signups EXCEPT ![i].uid = uid, ![i].pc = "setDoc"]
                /\ lastOp' = NoOp
    /\ UNCHANGED <<users, tickets, now, updates, router, handlers, signins, creates,
                   screens>>

\* faulty variant of signUpProfile: every profile is written as a client
signUpProfile_AlwaysClient(c) == Profile(c.email, c.name, "client", now)

\* the profile document signUp writes
signUpProfile(c) == Profile(c.email, c.name, c.role, now)

\* signUp i resumes from setDoc
SignUpSetDoc(i, writeFails) ==
    /\ Idle
    /\ i \in 1..Len(signups)
    /\ signups[i].pc = "setDoc"
    /\ LET c == signups[i] IN
         IF writeFails
         THEN /\ signups' = RemoveAt(signups, i)
              /\ UNCHANGED users
              /\ lastOp' = Op("signUp", "Failed to create account", NoUser, c.uid, c.role)
         ELSE /\ signups' = [signups EXCEPT ![i].pc = "getDoc"]
              /\ users' = [users EXCEPT ![c.uid] = signUpProfile(c)]
              /\ lastOp' = NoOp
    /\ UNCHANGED <<accounts, tickets, now, updates, authUser, authEvent, router,
                   handlers, signins, creates, screens>>

\* signUp's check of the document it read back: "ok" or the message thrown
signUpVerify(verifyDoc, readFails) ==
    IF readFails THEN "Failed to create account"
    ELSE IF ~verifyDoc.exists THEN "Failed to create user profile"
    ELSE "ok"

\* signUp i resumes from the verifying getDoc and returns
SignUpGetDoc(i, readFails) ==
    /\ Idle
    /\ i \in 1..Len(signups)
    /\ signups[i].pc = "getDoc"
    /\ LET c == signups[i] IN
         lastOp' = Op("signUp", signUpVerify(users[c.uid], readFails), NoUser, c.uid, c.role)
    /\ signups' = RemoveAt(signups, i)
    /\ UNCHANGED <<backend, authUser, authEvent, router, handlers, signins, creates,
                   screens>>

(* ------------------------------------------------------ signIn, signOut *)
\* signIn's check before its await: "ok" or the message of the error thrown
signInValidate(email, password) ==
    IF email = "" \/ password = "" THEN "Email and password are required" ELSE "ok"

\* the login screen's call of signIn, up to the await of
\* signInWithEmailAndPassword
SignInCall(email, password) ==
    /\ Idle
    /\ Screen = "Auth"
    /\ IF signInValidate(email, password) # "ok"
       THEN /\ UNCHANGED signins
            /\ lastOp' = Op("signIn", signInValidate(email, password), NoUser, NoUser, "")
       ELSE /\ Len(signups) + Len(signins) < MaxAuthCalls
            /\ signins' = Append(signins, [email |-> email, password |-> password])
            /\ lastOp' = NoOp
    /\ UNCHANGED <<backend, authUser, authEvent, router, handlers, signups, creates,
                   screens>>

\* failures of the auth service that do not depend on the credentials: none,
\* the network, an error without code and message
SignInFaults == {"", "auth/network-request-failed", "unknown"}

\* the auth service's answer to signInWithEmailAndPassword: "ok" or error.code
signInWithEmailAndPassword(email, password, fault) ==
    IF fault # "" THEN fault
    ELSE IF email = BadEmail THEN "auth/invalid-email"
    ELSE IF UidOfEmail(email) = NoUser THEN "auth/user-not-found"
    ELSE IF accounts[UidOfEmail(email)].password # password THEN "auth/wrong-password"
    ELSE "ok"

\* error.message of the auth service's error with a given code
ServiceMessage(code) ==
    IF code = "unknown" THEN "" ELSE "Firebase: Error (" \o code \o ")."

\* faulty variant of signInMessage: the error code is not inspected
signInMessage_Generic(code) ==
    IF ServiceMessage(code) # "" THEN ServiceMessage(code) ELSE "Failed to sign in"

\* the message signIn throws for an error code of the auth service
signInMessage(code) ==
    IF code = "auth/user-not-found" THEN "No account found with this email"
    ELSE IF code = "auth/wrong-password" THEN "Incorrect password"
    ELSE IF code = "auth/invalid-email" THEN "Invalid email address"
    ELSE IF ServiceMessage(code) # "" THEN ServiceMessage(code)
    ELSE "Failed to sign in"

\* signIn i resumes from signInWithEmailAndPassword and returns; a sign-in
\* that changes the session is explored while fewer than `room` handlers are
\* suspended
SignInReturnWithin(i, fault, room) ==
    /\ Idle
    /\ i \in 1..Len(signins)
    /\ LET c == signins[i]
           r == signInWithEmailAndPassword(c.email, c.password, fault)
           uid == UidOfEmail(c.email)
       IN  IF r # "ok"
           THEN /\ UNCHANGED <<authUser, authEvent>>
                /\ lastOp' = Op("signIn", signInMessage(r), NoUser, NoUser, "")
           ELSE /\ Len(handlers) < room
                /\ authUser' = uid
                /\ authEvent' = IF uid # authUser THEN <<uid>> ELSE <<>>
                /\ lastOp' = NoOp
    /\ signins' = RemoveAt(signins, i)
    /\ UNCHANGED <<backend, router, handlers, signups, creates, screens>>

SignInReturn(i, fault) == SignInReturnWithin(i, fault, MaxHandlers)

\* handleLogout of the two home screens
handleLogout(signOutFails) ==
    /\ Idle
    /\ Screen \in {"ClientApp", "DeveloperApp"}
    /\ detail = <<>>
    /\ IF signOutFails
       THEN /\ UNCHANGED <<authUser, authEvent>>
            /\ lastOp' = NoOp
       ELSE /\ SessionAfterSignOut
            /\ lastOp' = NoOp
    /\ UNCHANGED <<backend, router, handlers, signups, signins, creates, screens>>

(* -------------------------------------------------------- subscriptions *)
\* faulty variant of NotifyListeners: only a change of the number of documents
\* is pushed, a changed field is not
NotifyListeners_OnAddOnly(newTickets) ==
    /\ clientHome' =
         IF clientHome.sub # <<>> /\ Len(newTickets) # Len(tickets)
         THEN [clientHome EXCEPT !.dirty = TRUE]
         ELSE clientHome
    /\ adminHome' =
         IF adminHome.sub # <<>> /\ Len(newTickets) # Len(tickets)
         THEN [adminHome EXCEPT !.dirty = TRUE]
         ELSE adminHome

\* the listeners whose query result changes are due a new snapshot
NotifyListeners(newTickets) ==
    /\ clientHome' =
         IF /\ clientHome.sub # <<>>
            /\ MyTicketsQuery(newTickets, clientHome.sub[1])
                 # MyTicketsQuery(tickets, clientHome.sub[1])
         THEN [clientHome EXCEPT !.dirty = TRUE]
         ELSE clientHome
    /\ adminHome' =
         IF adminHome.sub # <<>> /\ AllTicketsQuery(newTickets) # AllTicketsQuery(tickets)
         THEN [adminHome EXCEPT !.dirty = TRUE]
         ELSE adminHome

\* faulty variant of onData: the list is not replaced
onData_KeepList(home, data) ==
    [home EXCEPT !.dirty = FALSE, !.loading = FALSE, !.refreshing = FALSE,
                 !.error = Null]

\* the state of a home screen after its onData callback ran with `data`
onData(home, data) ==
    [home EXCEPT !.tickets = data, !.dirty = FALSE, !.loading = FALSE,
                 !.refreshing = FALSE, !.error = Null]

\* the snapshot listener of getMyTickets fires
ClientSnapshot ==
    /\ Idle
    /\ clientHome.sub # <<>>
    /\ clientHome.dirty
    /\ clientHome' = onData(clientHome, MyTicketsQuery(tickets, clientHome.sub[1]))
    /\ lastOp' = Op("getMyTickets", "onData", NoUser, clientHome.sub[1], "")
    /\ UNCHANGED <<backend, authUser, authEvent, router, handlers, signups, signins, creates,
                   adminHome, detail, form>>

\* the snapshot listener of getAllTickets fires
AdminSnapshot ==
    /\ Idle
    /\ adminHome.sub # <<>>
    /\ adminHome.dirty
    /\ adminHome' = onData(adminHome, AllTicketsQuery(tickets))
    /\ lastOp' = Op("getAllTickets", "onData", NoUser, NoUser, "")
    /\ UNCHANGED <<backend, authUser, authEvent, router, handlers, signups, signins, creates,
                   clientHome, detail, form>>

\* the state of a home screen after its onError callback ran; the service
\* ends a listener it reports an error on
onError(home, message) ==
    [home EXCEPT !.error = message, !.dirty = FALSE, !.loading = FALSE,
                 !.refreshing = FALSE, !.sub = <<>>]

ListenFailed == "Missing or insufficient permissions."

\* the snapshot listener of getMyTickets reports an error
ClientSnapshotError ==
    /\ Idle
    /\ clientHome.sub # <<>>
    /\ clientHome' = onError(clientHome, ListenFailed)
    /\ lastOp' = Op("getMyTickets", "onError", NoUser, clientHome.sub[1], "")
    /\ UNCHANGED <<backend, authUser, authEvent, router, handlers, signups, signins, creates,
                   adminHome, detail, form>>

\* the snapshot listener of getAllTickets reports an error
AdminSnapshotError ==
    /\ Idle
    /\ adminHome.sub # <<>>
    /\ adminHome' = onError(adminHome, ListenFailed)
    /\ lastOp' = Op("getAllTickets", "onError", NoUser, NoUser, "")
    /\ UNCHANGED <<backend, authUser, authEvent, router, handlers, signups, signins, creates,
                   clientHome, detail, form>>

HomeScreens == {"ClientApp", "DeveloperApp"}

\* faulty variant of onRefresh: the screen subscribes again
onRefresh_Resubscribe(s) ==
    /\ Idle
    /\ Screen = s
    /\ IF s = "ClientApp"
       THEN /\ clientHome.mounted
            /\ clientHome' = [getMyTickets(authUser) EXCEPT !.refreshing = TRUE]
            /\ UNCHANGED adminHome
       ELSE /\ adminHome.mounted
            /\ adminHome' = [getAllTickets EXCEPT !.refreshing = TRUE]
            /\ UNCHANGED clientHome
    /\ lastOp' = NoOp
    /\ UNCHANGED <<backend, authUser, authEvent, router, handlers, signups, signins, creates,
                   detail, form>>

\* onRefresh of the home screen s (pull-to-refresh)
onRefresh(s) ==
    /\ Idle
    /\ Screen = s
    /\ IF s = "ClientApp"
       THEN /\ clientHome.mounted
            /\ clientHome' = [clientHome EXCEPT !.refreshing = TRUE]
            /\ UNCHANGED adminHome
       ELSE /\ adminHome.mounted
            /\ adminHome' = [adminHome EXCEPT !.refreshing = TRUE]
            /\ UNCHANGED clientHome
    /\ lastOp' = NoOp
    /\ UNCHANGED <<backend, authUser, authEvent, router, handlers, signups, signins, creates,
                   detail, form>>

\* the Retry button of the error view of the home screen s
retry(s) ==
    /\ Idle
    /\ Screen = s
    /\ LET home == IF s = "ClientApp" THEN clientHome ELSE adminHome IN
         /\ home.mounted /\ home.tickets = <<>> /\ ~home.loading /\ home.error # Null
         /\ IF s = "ClientApp"
            THEN /\ clientHome' = [clientHome EXCEPT !.loading = TRUE, !.error = Null]
                 /\ UNCHANGED adminHome
            ELSE /\ adminHome' = [adminHome EXCEPT !.loading = TRUE, !.error = Null]
                 /\ UNCHANGED clientHome
    /\ lastOp' = NoOp
    /\ UNCHANGED <<backend, authUser, authEvent, router, handlers, signups, signins, creates,
                   detail, form>>

(* --------------------------------------------------------- createTicket *)
\* faulty variant of createTicketValidate: the fields are checked before the
\* current user
createTicketValidate_FieldsFirst(currentUser, title, description, type) ==
    IF title = <<>> \/ description = <<>> \/ type = ""
    THEN "All fields are required"
    ELSE IF type \notin TicketTypes
    THEN "Type must be either \"bug\" or \"feature\""
    ELSE IF currentUser = NoUser THEN "You must be logged in to create a ticket"
    ELSE "ok"

\* createTicket's checks before its first await: "ok" or the message thrown
createTicketValidate(currentUser, title, description, type) ==
    IF currentUser = NoUser THEN "You must be logged in to create a ticket"
    ELSE IF title = <<>> \/ description = <<>> \/ type = ""
    THEN "All fields are required"
    ELSE IF type \notin TicketTypes
    THEN "Type must be either \"bug\" or \"feature\""
    ELSE "ok"

\* the text inputs' onChangeText and the type buttons' onPress
setFields(title, description, type) ==
    /\ Idle
    /\ Screen = "ClientApp"
    /\ form' = [form EXCEPT !.title = title, !.description = description, !.type = type]
    /\ lastOp' = NoOp
    /\ UNCHANGED <<backend, authUser, authEvent, router, handlers, signups, signins, creates,
                   clientHome, adminHome, detail>>

\* faulty variant of handleSubmitWithin: the Submit button is not disabled
\* while a call is in flight
handleSubmitWithin_NotDisabled(title, description, type, room) ==
    /\ Idle
    /\ Screen = "ClientApp"
    /\ Trim(title) # <<>> /\ Trim(description) # <<>>
    /\ createTicketValidate(authUser, Trim(title), Trim(description), type) = "ok"
    /\ Len(creates) + Len(tickets) < room
    /\ creates' = Append(creates,
           [caller |-> authUser, uid |-> authUser, email |-> EmailOf(authUser),
            title |-> Trim(title), description |-> Trim(description),
            type |-> type, clientName |-> EmailOf(authUser),
            submit |-> TRUE, pc |-> "getName"])
    /\ form' = [form EXCEPT !.loading = TRUE]
    /\ lastOp' = NoOp
    /\ UNCHANGED <<backend, authUser, authEvent, router, handlers, signups, signins,
                   clientHome, adminHome, detail>>

\* handleSubmit -> createTicket, up to the await of the profile read; title,
\* description and type are the values of the form's fields when Submit is
\* pressed, and a call is explored while fewer than `room` tickets are stored
\* or on their way
handleSubmitWithin(title, description, type, room) ==
    /\ Idle
    /\ Screen = "ClientApp"
    /\ ~form.loading
    /\ IF Trim(title) = <<>> \/ Trim(description) = <<>>
       THEN /\ UNCHANGED <<creates, form>>
            /\ lastOp' = NoOp
       ELSE LET v == createTicketValidate(authUser, Trim(title), Trim(description), type) IN
            IF v # "ok"
            THEN /\ UNCHANGED <<creates, form>>
                 /\ lastOp' = NoOp
            ELSE /\ Len(creates) + Len(tickets) < room
                 /\ creates' = Append(creates,
                        [caller |-> authUser,   \* history: who was signed in at the call
                         uid |-> authUser, email |-> EmailOf(authUser),
                         title |-> Trim(title), description |-> Trim(description),
                         type |-> type, clientName |-> EmailOf(authUser),
                         submit |-> TRUE,       \* the caller is handleSubmit
                         pc |-> "getName"])
                 /\ form' = [form EXCEPT !.loading = TRUE]
                 /\ lastOp' = NoOp
    /\ UNCHANGED <<backend, authUser, authEvent, router, handlers, signups, signins,
                   clientHome, adminHome, detail>>

\* the user fills in the form with these values and presses Submit
handleSubmit(title, description, type) ==
    handleSubmitWithin(title, description, type, MaxTickets)

\* faulty variant of clientNameOf: no fallback to the email
clientNameOf_NoFallback(c, userDoc, readFails) ==
    IF ~readFails /\ userDoc.exists THEN userDoc.name ELSE ""

\* the display name createTicket settles on after reading the profile
clientNameOf(c, userDoc, readFails) ==
    IF ~readFails /\ userDoc.exists /\ userDoc.name # "" THEN userDoc.name ELSE c.email

\* createTicket i resumes from the profile read
CreateGetName(i, readFails) ==
    /\ Idle
    /\ i \in 1..Len(creates)
    /\ creates[i].pc = "getName"
    /\ creates' = [creates EXCEPT
                     ![i].clientName = clientNameOf(creates[i], users[creates[i].uid], readFails),
                     ![i].pc = "add"]
    /\ lastOp' = NoOp
    /\ UNCHANGED <<backend, authUser, authEvent, router, handlers, signups, signins, screens>>

\* faulty variant of ticketDoc: the owner read from the session at the add
\* instead of the user captured at the call
ticketDoc_OwnerAtAdd(c, cur) ==
    [title |-> Trim(c.title), description |-> Trim(c.description), type |-> c.type,
     status |-> "open", clientId |-> cur, clientName |-> c.clientName,
     clientEmail |-> c.email, createdAt |-> now, updatedAt |-> 0]

\* the document createTicket adds; cur is the current user at the time of the add
ticketDoc(c, cur) ==
    [title |-> Trim(c.title), description |-> Trim(c.description), type |-> c.type,
     status |-> "open", clientId |-> c.uid, clientName |-> c.clientName,
     clientEmail |-> c.email, createdAt |-> now, updatedAt |-> 0]

\* createTicket i resumes from the add and returns to handleSubmit
CreateAdd(i, addFails) ==
    /\ Idle
    /\ i \in 1..Len(creates)
    /\ creates[i].pc = "add"
    /\ creates' = RemoveAt(creates, i)
    /\ IF addFails
       THEN \* handleSubmit's catch and finally: setLoading(false)
            /\ form' = IF creates[i].submit THEN [form EXCEPT !.loading = FALSE] ELSE form
            /\ UNCHANGED <<tickets, now, clientHome, adminHome>>
            /\ lastOp' = NoOp
       ELSE \* handleSubmit clears the fields; finally: setLoading(false)
            /\ form' = IF creates[i].submit THEN FormInit ELSE form
            /\ tickets' = Append(tickets, ticketDoc(creates[i], authUser))
            /\ now' = now + 1
            /\ NotifyListeners(tickets')
            /\ lastOp' = Op("createTicket", "ok", creates[i].caller, Len(tickets) + 1, "")
    /\ UNCHANGED <<accounts, users, updates, authUser, authEvent, router, handlers,
                   signups, signins, detail>>

(* --------------------------------------------------- updateTicketStatus *)
\* AdminHomeScreen's handleTicketPress on the k-th listed ticket
handleTicketPress(k) ==
    /\ Idle
    /\ Screen = "DeveloperApp"
    /\ detail = <<>>
    /\ k \in 1..Len(adminHome.tickets)
    /\ detail' = <<adminHome.tickets[k]>>
    /\ lastOp' = NoOp
    /\ UNCHANGED <<backend, authUser, authEvent, router, handlers, signups, signins, creates,
                   clientHome, adminHome, form>>

\* TicketDetailScreen's back button
goBack ==
    /\ Idle
    /\ Screen = "DeveloperApp"
    /\ detail # <<>>
    /\ detail' = <<>>
    /\ lastOp' = NoOp
    /\ UNCHANGED <<backend, authUser, authEvent, router, handlers, signups, signins, creates,
                   clientHome, adminHome, form>>

\* faulty variant of updateTicketStatusValidate: the status is not checked
updateTicketStatusValidate_IdOnly(ticketId, status) ==
    IF ticketId = 0 THEN "Ticket ID is required" ELSE "ok"

\* updateTicketStatus's checks: "ok" or the message thrown
updateTicketStatusValidate(ticketId, status) ==
    IF ticketId = 0 THEN "Ticket ID is required"
    ELSE IF ~Includes(validStatuses, status)
    THEN "Status must be one of: open, in-progress, resolved, closed"
    ELSE "ok"

\* faulty variant of updateDoc: the document is replaced by the two fields
\* instead of merged with them
updateDoc_Replace(t, status) ==
    [t EXCEPT !.status = status, !.updatedAt = now, !.title = <<>>,
              !.description = <<>>, !.clientName = "", !.clientEmail = ""]

\* the ticket after updateDoc(ticketRef, { status, updatedAt: serverTimestamp() })
updateDoc(t, status) == [t EXCEPT !.status = status, !.updatedAt = now]

\* handleStatusUpdate -> updateTicketStatus on the ticket shown
handleStatusUpdate(newStatus, updateFails) ==
    /\ Idle
    /\ Screen = "DeveloperApp"
    /\ detail # <<>>
    /\ LET id == detail[1].id
           v == updateTicketStatusValidate(id, newStatus)
       IN  IF v # "ok" \/ updateFails
           THEN /\ UNCHANGED <<tickets, now, updates, screens>>
                /\ lastOp' = IF v # "ok" THEN Op("updateTicketStatus", v, NoUser, id, newStatus)
                            ELSE NoOp
           ELSE /\ updates < MaxUpdates
                /\ tickets' = [tickets EXCEPT ![id] = updateDoc(tickets[id], newStatus)]
                /\ now' = now + 1
                /\ updates' = updates + 1
                /\ NotifyListeners(tickets')
                /\ detail' = <<>>
                /\ UNCHANGED form
                /\ lastOp' = Op("updateTicketStatus", "ok", NoUser, id, newStatus)
    /\ UNCHANGED <<accounts, users, authUser, authEvent, router, handlers, signups, signins, creates>>

(* ------------------------------------------- direct calls, other devices *)
\* createTicket called with arguments as they are (no screen trimmed them),
\* whoever is or is not signed in, up to the await of the profile read
createTicket(title, description, type) ==
    /\ Idle
    /\ creates = <<>>
    /\ IF createTicketValidate(authUser, title, description, type) # "ok"
       THEN /\ UNCHANGED creates
            /\ lastOp' = Op("createTicket",
                            createTicketValidate(authUser, title, description, type),
                            authUser, NoUser, "")
       ELSE /\ Len(tickets) < MaxStoreTickets
            /\ creates' = Append(creates,
                   [caller |-> authUser, uid |-> authUser, email |-> EmailOf(authUser),
                    title |-> title, description |-> description, type |-> type,
                    clientName |-> EmailOf(authUser), submit |-> FALSE,
                    pc |-> "getName"])
            /\ lastOp' = NoOp
    /\ UNCHANGED <<backend, authUser, authEvent, router, handlers, signups, signins,
                   screens>>

\* createTicket run to its end by another app instance on which the client u
\* is signed in
RemoteCreateTicket(u) ==
    /\ Idle
    /\ users[u].exists /\ users[u].role = "client"
    /\ Len(creates) + Len(tickets) < MaxStoreTickets
    /\ tickets' = Append(tickets,
           ticketDoc([uid |-> u, email |-> EmailOf(u), title |-> <<"r">>,
                      description |-> <<"r">>, type |-> "bug",
                      clientName |-> clientNameOf([email |-> EmailOf(u)], users[u], FALSE)],
                     u))
    /\ now' = now + 1
    /\ NotifyListeners(tickets')
    /\ lastOp' = NoOp
    /\ UNCHANGED <<accounts, users, updates, authUser, authEvent, router, handlers,
                   signups, signins, creates, detail, form>>

\* updateTicketStatus run to its end by another app instance on which an
\* admin is signed in
RemoteUpdateTicketStatus(id, status) ==
    /\ Idle
    /\ \E u \in Uids : users[u].exists /\ users[u].role = "admin"
    /\ id \in 1..Len(tickets)
    /\ updateTicketStatusValidate(id, status) = "ok"
    /\ updates < MaxUpdates
    /\ tickets' = [tickets EXCEPT ![id] = updateDoc(tickets[id], status)]
    /\ now' = now + 1
    /\ updates' = updates + 1
    /\ NotifyListeners(tickets')
    /\ lastOp' = NoOp
    /\ UNCHANGED <<accounts, users, authUser, authEvent, router, handlers, signups,
                   signins, creates, detail, form>>

(* ------------------------------------------------------------------ Next *)
Next ==
    \/ onAuthStateChanged
    \/ \E i \in 1..MaxHandlers, f \in BOOLEAN : HandlerGetDoc(i, f)
    \/ \E i \in 1..MaxHandlers, f \in BOOLEAN : HandlerSignOut(i, f)
    \/ \E in \in SignUpInputs : SignUpCall(in[1], in[2], in[3], in[4])
    \/ \E i \in 1..MaxAuthCalls : SignUpCreateUser(i)
    \/ \E i \in 1..MaxAuthCalls, f \in BOOLEAN : SignUpSetDoc(i, f)
    \/ \E i \in 1..MaxAuthCalls, f \in BOOLEAN : SignUpGetDoc(i, f)
    \/ \E in \in SignInInputs : SignInCall(in[1], in[2])
    \/ \E i \in 1..MaxAuthCalls, f \in SignInFaults : SignInReturn(i, f)
    \/ \E f \in BOOLEAN : handleLogout(f)
    \/ \E in \in SubmitInputs : handleSubmit(in[1], in[2], in[3])
    \/ \E i \in 1..MaxTickets, f \in BOOLEAN : CreateGetName(i, f)
    \/ \E i \in 1..MaxTickets, f \in BOOLEAN : CreateAdd(i, f)
    \/ ClientSnapshot
    \/ AdminSnapshot
    \/ \E k \in 1..MaxTickets : handleTicketPress(k)
    \/ goBack
    \/ \E s \in StatusInputs, f \in BOOLEAN : handleStatusUpdate(s, f)

Spec == Init /\ [][Next]_vars

\* the event loop runs every queued callback: a pending auth notification and
\* a pending snapshot are delivered
Fairness ==
    /\ WF_vars(onAuthStateChanged)
    /\ WF_vars(ClientSnapshot)
    /\ WF_vars(AdminSnapshot)

FairSpec == Spec /\ Fairness

\* the promises a handler awaits settle: getDoc and signOut resolve or reject
HandlerFairness ==
    \A i \in 1..MaxHandlers :
        /\ WF_vars(\E f \in BOOLEAN : HandlerGetDoc(i, f))
        /\ WF_vars(\E f \in BOOLEAN : HandlerSignOut(i, f))

ResolveSpec == FairSpec /\ HandlerFairness

(* ------------------------------ one device among others on the same store *)
\* a registered client and a registered admin; one of them is signed in on
\* this device and the router has settled on their screens
PeerInit ==
    /\ accounts = [u \in Uids |-> Account(IF u = 1 THEN "a@x" ELSE "b@x", GoodPass)]
    /\ users = [u \in Uids |-> Profile(IF u = 1 THEN "a@x" ELSE "b@x", "Ann",
                                        IF u = 1 THEN "client" ELSE "admin", 1)]
    /\ authUser \in Uids
    /\ authEvent = <<>>
    /\ tickets = <<>>
    /\ now = 1
    /\ user = authUser
    /\ userRole = users[authUser].role
    /\ error = Null
    /\ loading = FALSE
    /\ handlers = <<>>
    /\ signups = <<>>
    /\ signins = <<>>
    /\ creates = <<>>
    /\ clientHome = IF userRole = "client" THEN getMyTickets(authUser) ELSE HomeUnmounted
    /\ adminHome = IF userRole = "admin" THEN getAllTickets ELSE HomeUnmounted
    /\ detail = <<>>
    /\ form = FormInit
    /\ updates = 0
    /\ lastOp = NoOp

\* what this device does once signed in, and what the other devices do to the
\* store meanwhile
PeerNext ==
    \/ onAuthStateChanged
    \/ \E f \in BOOLEAN : handleLogout(f)
    \/ \E in \in SubmitInputs : handleSubmit(in[1], in[2], in[3])
    \/ \E in \in CreateTicketInputs : createTicket(in[1], in[2], in[3])
    \/ \E i \in 1..MaxTickets, f \in BOOLEAN : CreateGetName(i, f)
    \/ \E i \in 1..MaxTickets, f \in BOOLEAN : CreateAdd(i, f)
    \/ \E u \in Uids : RemoteCreateTicket(u)
    \/ \E id \in 1..MaxStoreTickets, s \in StatusInputs : RemoteUpdateTicketStatus(id, s)
    \/ ClientSnapshot
    \/ AdminSnapshot
    \/ \E k \in 1..MaxStoreTickets : handleTicketPress(k)
    \/ goBack
    \/ \E s \in StatusInputs, f \in BOOLEAN : handleStatusUpdate(s, f)

PeerSpec == PeerInit /\ [][PeerNext]_vars /\ Fairness

\* the same device with the home screens' own controls and the listeners'
\* error callbacks
HomeNext ==
    \/ PeerNext
    \/ \E s \in HomeScreens : onRefresh(s)
    \/ \E s \in HomeScreens : retry(s)
    \/ ClientSnapshotError
    \/ AdminSnapshotError

HomeSpec == PeerInit /\ [][HomeNext]_vars

(* ------------------------------------------- the form of a signed-in client *)
\* the Create Ticket screen with its fields as state: the user edits them,
\* presses Submit whenever the button lets them, and may log out
FormNext ==
    \/ onAuthStateChanged
    \/ \E f \in BOOLEAN : handleLogout(f)
    \/ \E in \in SubmitInputs : setFields(in[1], in[2], in[3])
    \/ handleSubmitWithin(form.title, form.description, form.type, MaxTickets + 1)
    \/ \E i \in 1..(MaxTickets + 1), f \in BOOLEAN : CreateGetName(i, f)
    \/ \E i \in 1..(MaxTickets + 1), f \in BOOLEAN : CreateAdd(i, f)
    \/ ClientSnapshot
    \/ AdminSnapshot

FormSpec == PeerInit /\ [][FormNext]_vars

(* ---------------------------------- two sign-ins in quick succession *)
\* the auth screen of a device on which nobody is signed in; a@x is an
\* identity without a profile (its signUp failed after the identity was
\* created), b@x is a registered client
RaceInit ==
    /\ accounts = [u \in Uids |-> Account(IF u = 1 THEN "a@x" ELSE "b@x", GoodPass)]
    /\ users = [u \in Uids |-> IF u = 1 THEN NoDoc
                                         ELSE Profile("b@x", "Ann", "client", 1)]
    /\ authUser = NoUser
    /\ authEvent = <<>>
    /\ tickets = <<>>
    /\ now = 1
    /\ user = NoUser
    /\ userRole = Null
    /\ error = Null
    /\ loading = FALSE
    /\ handlers = <<>>
    /\ signups = <<>>
    /\ signins = <<>>
    /\ creates = <<>>
    /\ clientHome = HomeUnmounted
    /\ adminHome = HomeUnmounted
    /\ detail = <<>>
    /\ form = FormInit
    /\ updates = 0
    /\ lastOp = NoOp

\* sign-in, logout and the router's handlers, with room for a second handler
\* to start while an earlier one is still suspended
RaceNext ==
    \/ onAuthStateChanged
    \/ \E i \in 1..(MaxHandlers + 1), f \in BOOLEAN : HandlerGetDoc(i, f)
    \/ \E i \in 1..(MaxHandlers + 1), f \in BOOLEAN : HandlerSignOut(i, f)
    \/ \E in \in SignInInputs : SignInCall(in[1], in[2])
    \/ \E i \in 1..MaxAuthCalls, f \in SignInFaults :
          SignInReturnWithin(i, f, MaxHandlers + 1)
    \/ \E f \in BOOLEAN : handleLogout(f)

RaceSpec == RaceInit /\ [][RaceNext]_vars /\ Fairness

(* ============================================================ properties *)

InvalidStatusMessage == "Status must be one of: open, in-progress, resolved, closed"

\* C1: a ticket that createTicket has just stored has status 'open' and the
\* clientId of the identity that was signed in when createTicket was called,
\* whatever was supplied and whatever happened to the session since.
C1_CreatedOpenByCaller ==
    (lastOp.op = "createTicket" /\ lastOp.res = "ok") =>
        /\ lastOp.id \in 1..Len(tickets)
        /\ tickets[lastOp.id].status = "open"
        /\ lastOp.who # NoUser
        /\ tickets[lastOp.id].clientId = lastOp.who

\* a ticket stored after its creator's session has ended or changed
C1_Witness ==
    /\ lastOp.op = "createTicket" /\ lastOp.res = "ok"
    /\ authUser # lastOp.who
    /\ tickets[lastOp.id].type = "feature"

\* C2 (as claimed): every list getMyTickets delivers holds only tickets whose
\* clientId is the identity signed in at the time of the delivery.
C2_DeliversOnlyCurrentIdentity ==
    lastOp.op = "getMyTickets" =>
        \A k \in 1..Len(clientHome.tickets) : clientHome.tickets[k].clientId = authUser

\* C3: updateTicketStatus with a status outside the four valid ones throws the
\* error naming them, writes nothing and leaves every ticket as it was.
C3_InvalidStatusNoMutation ==
    [][(lastOp'.op = "updateTicketStatus" /\ ~Includes(validStatuses, lastOp'.val)) =>
          /\ lastOp'.res = InvalidStatusMessage
          /\ tickets' = tickets
          /\ updates' = updates
          /\ now' = now]_vars

C3_Witness ==
    /\ lastOp.op = "updateTicketStatus"
    /\ lastOp.val = "done"
    /\ lastOp.res = InvalidStatusMessage
    /\ tickets[lastOp.id].status = "open"

\* C4: when signUp returns an identity, the users collection holds a profile
\* under that identity's uid whose role is the role signUp was given.
C4_ProfileHasGivenRole ==
    (lastOp.op = "signUp" /\ lastOp.res = "ok") =>
        /\ lastOp.id \in Uids
        /\ accounts[lastOp.id].exists
        /\ users[lastOp.id].exists
        /\ users[lastOp.id].role = lastOp.val
        /\ lastOp.val \in {"client", "admin"}

C4_Witness ==
    /\ lastOp.op = "signUp" /\ lastOp.res = "ok"
    /\ lastOp.val = "admin"
    /\ users[lastOp.id].role = "admin"

\* the inputs register accepts, as the specification states them
ValidRegistration(in) ==
    /\ in[1] # "" /\ in[2] # "" /\ in[3] # ""
    /\ Len(in[2]) >= 6
    /\ in[4] \in {"client", "admin"}

\* C5: a signUp call with a role outside {client, admin}, an empty field or a
\* password shorter than 6 throws before any call of the auth service or the
\* store: no identity, no profile, no call left in flight, the session as it was.
C5_InvalidRegistrationNoRemoteCall ==
    [][\A in \in SignUpInputs :
          (SignUpCall(in[1], in[2], in[3], in[4]) /\ ~ValidRegistration(in)) =>
              /\ lastOp'.op = "signUp"
              /\ lastOp'.res \notin {"ok", ""}
              /\ UNCHANGED <<accounts, users, authUser, authEvent, signups, handlers>>]_vars

C5_Witness ==
    /\ lastOp.op = "signUp"
    /\ lastOp.res = "Role must be either \"client\" or \"admin\""
    /\ signups = <<>>
    /\ \A u \in Uids : ~accounts[u].exists

\* C6 (as claimed): a status update is only ever performed while the signed-in
\* identity has role admin.
C6_StatusChangedByAdminOnly ==
    (lastOp.op = "updateTicketStatus" /\ lastOp.res = "ok") =>
        /\ authUser # NoUser
        /\ users[authUser].exists
        /\ users[authUser].role = "admin"

\* C7 (as claimed): when the auth handler has finished after getUserRole
\* failed, nobody is signed in and the router holds no user and no role.
C7_RoleFailureSignsOut ==
    (lastOp.op = "onAuthStateChanged" /\ lastOp.val = "failed") =>
        /\ authUser = NoUser
        /\ user = NoUser
        /\ userRole = Null

\* C8 (as claimed): while a session notification is being handled the router
\* is loading and renders no screen set.
C8_ResolvingOnEverySessionChange ==
    (authEvent # <<>> \/ handlers # <<>>) => (loading /\ Screen = "none")

\* C8 (amended): the router is loading from the start until the handling of
\* the first session notification completes, and renders no screen set while
\* loading; it leaves loading only when a handler completes, and does not
\* return to it on later session changes.
C8_ResolvingUntilFirstHandled ==
    /\ [](loading => (Screen = "none" /\ (authEvent # <<>> \/ handlers # <<>>)))
    /\ [][/\ (loading /\ ~loading') => lastOp'.op = "onAuthStateChanged"
          /\ ~loading => ~loading']_vars

C8_Witness ==
    /\ loading
    /\ Len(handlers) = 1
    /\ handlers[1].retries < DefaultRetries
    /\ authUser # NoUser

\* C9: when the handler of a notification with an identity completes with
\* getUserRole's role, the router holds that identity and that role, and
\* renders the client screens for client and the admin screens for admin.
C9_RoutedByRole ==
    (lastOp.op = "onAuthStateChanged" /\ lastOp.res = "ok" /\ lastOp.id # NoUser) =>
        /\ user = lastOp.id
        /\ userRole = users[lastOp.id].role
        /\ users[lastOp.id].role = "client" => Screen = "ClientApp"
        /\ users[lastOp.id].role = "admin" => Screen = "DeveloperApp"
        /\ Screen \in {"ClientApp", "DeveloperApp"}

C9_Witness ==
    /\ lastOp.op = "onAuthStateChanged" /\ lastOp.res = "ok"
    /\ lastOp.id = 2
    /\ users[2].role = "admin"
    /\ Screen = "DeveloperApp"

\* C10: when the handler of a notification without an identity has run, the
\* router holds no user and no role and renders the sign-in screens, whatever
\* it rendered before.
C10_SignedOutUnauthenticated ==
    (lastOp.op = "onAuthStateChanged" /\ lastOp.res = "ok" /\ lastOp.id = NoUser) =>
        /\ user = NoUser
        /\ userRole = Null
        /\ ~loading
        /\ Screen = "Auth"

\* the notification found the admin screens rendered
C10_Witness ==
    /\ lastOp.op = "onAuthStateChanged" /\ lastOp.res = "ok" /\ lastOp.id = NoUser
    /\ lastOp.val = "DeveloperApp"
    /\ Screen = "Auth"

ProfileNotFound == "User profile not found"

\* C11: getUserRole never holds a retry budget outside 0..3; each read that
\* finds no profile document either spends one retry (the budget strictly
\* decreases, so at most 3 retries follow the first read) or, with no retry
\* left, throws 'User profile not found'.
C11_RetriesWithinBudget ==
    /\ [](\A i \in 1..Len(handlers) : handlers[i].retries \in 0..DefaultRetries)
    /\ [][\A i \in 1..Len(handlers) :
            (HandlerGetDoc(i, FALSE) /\ ~users[handlers[i].au].exists) =>
                IF handlers[i].retries > 0
                THEN /\ handlers' = [handlers EXCEPT ![i].retries = handlers[i].retries - 1]
                     /\ UNCHANGED router
                ELSE /\ handlers' = [handlers EXCEPT ![i].pc = "signOut"]
                     /\ error' = ProfileNotFound]_vars

\* the budget of an identity without a profile is spent and the lookup failed
C11_Witness ==
    /\ Len(handlers) = 1
    /\ handlers[1].pc = "signOut"
    /\ handlers[1].retries = 0
    /\ error = ProfileNotFound
    /\ ~users[handlers[1].au].exists

\* C12: a getUserRole read that sees the profile which signUp wrote completes
\* the handler with the registered role, also while that signUp is still in
\* flight; the lookup fails with 'User profile not found' only on a read that
\* does not see the profile and has no retry left.
C12_RoleOnceProfileVisible ==
    [][\A i \in 1..Len(handlers) :
          HandlerGetDoc(i, FALSE) =>
              LET h == handlers[i]
                  d == users[h.au]
              IN  /\ (d.exists /\ d.role # "") =>
                        /\ user' = h.au
                        /\ userRole' = d.role
                        /\ \A j \in 1..Len(signups) :
                              signups[j].uid = h.au => userRole' = signups[j].role
                  /\ (Len(handlers') = Len(handlers) /\ handlers'[i].pc = "signOut"
                        /\ error' = ProfileNotFound) =>
                        (~d.exists /\ h.retries = 0)
                  /\ (~d.exists /\ h.retries > 0) =>
                        (Len(handlers') = Len(handlers) /\ handlers'[i].pc = "getDoc")]_vars

\* the handler resolved the role of an identity whose signUp has not returned
C12_Witness ==
    /\ lastOp.op = "onAuthStateChanged" /\ lastOp.res = "ok"
    /\ \E j \in 1..Len(signups) :
          /\ signups[j].uid = lastOp.id
          /\ signups[j].pc = "getDoc"
          /\ userRole = signups[j].role
          /\ userRole = "admin"

\* C13 (as claimed): when signUp has thrown after the identity was created,
\* the identity exists without a profile document; and once the handling of
\* the session of an identity without a profile has finished, that identity is
\* not signed in and the router shows the sign-in screens.
C13_FailedRegisterEndsSignedOut ==
    /\ (lastOp.op = "signUp" /\ lastOp.res # "ok" /\ lastOp.id # NoUser) =>
          (accounts[lastOp.id].exists /\ ~users[lastOp.id].exists)
    /\ \A u \in Uids :
          (/\ accounts[u].exists /\ ~users[u].exists
           /\ \A j \in 1..Len(signups) : signups[j].uid # u
           /\ authEvent = <<>> /\ handlers = <<>>) =>
              (authUser # u /\ (authUser = NoUser => Screen = "Auth"))

\* the list holds the ticket `id` with status `status`
Shows(list, id, status) ==
    \E k \in 1..Len(list) : list[k].id = id /\ list[k].status = status

\* C14: a ticket that a client has submitted and that is still open is
\* eventually delivered, with status 'open', to that client's subscription
\* while it stays active, and every stored ticket is eventually delivered
\* under its id to the all-tickets subscription while that one stays active.
C14_SubmittedTicketDelivered ==
    /\ \A id \in 1..MaxTickets, u \in Uids :
          (/\ Len(tickets) >= id
           /\ tickets[id].clientId = u /\ tickets[id].status = "open"
           /\ clientHome.sub = <<u>>)
             ~> (clientHome.sub # <<u>> \/ Shows(clientHome.tickets, id, "open"))
    /\ \A id \in 1..MaxTickets :
          (Len(tickets) >= id /\ adminHome.sub # <<>>)
             ~> (adminHome.sub = <<>>
                 \/ \E k \in 1..Len(adminHome.tickets) : adminHome.tickets[k].id = id)

\* the client's own list shows the ticket they submitted through the form
C14_Witness ==
    /\ lastOp.op = "getMyTickets"
    /\ clientHome.sub = <<authUser>>
    /\ Shows(clientHome.tickets, 1, "open")
    /\ clientHome.tickets[1].clientId = authUser
    /\ ~form.loading

\* C15: once a status update of a client's ticket is committed, that client's
\* subscription, while it stays active, eventually delivers the ticket with
\* the committed status (unless the status is changed again first); the
\* delivery is a callback of the subscription already held: the step changes
\* nothing but the screen's list and flags.
C15_StatusPushedToOwner ==
    /\ \A id \in 1..MaxStoreTickets, u \in Uids, k \in 1..Len(validStatuses) :
          (/\ Len(tickets) >= id
           /\ tickets[id].clientId = u
           /\ tickets[id].updatedAt # 0 /\ tickets[id].status = validStatuses[k]
           /\ clientHome.sub = <<u>>)
             ~> (\/ clientHome.sub # <<u>>
                 \/ Shows(clientHome.tickets, id, validStatuses[k])
                 \/ (Len(tickets) >= id /\ tickets[id].status # validStatuses[k]))
    /\ [][lastOp'.op = "getMyTickets" =>
            /\ clientHome.sub # <<>>
            /\ clientHome'.sub = clientHome.sub
            /\ clientHome'.mounted = clientHome.mounted
            /\ UNCHANGED <<backend, authUser, authEvent, router, creates, form>>]_vars

\* the client's list shows the status another device's admin has set
C15_Witness ==
    /\ lastOp.op = "getMyTickets"
    /\ clientHome.sub = <<authUser>>
    /\ Len(tickets) >= 1
    /\ tickets[1].updatedAt # 0
    /\ Shows(clientHome.tickets, 1, "resolved")

\* `list` is exactly the stored documents with ids in S, each once and as
\* stored, newest first
IsFullListOf(list, S) ==
    /\ Len(list) = Cardinality(S)
    /\ {list[k].id : k \in 1..Len(list)} = S
    /\ \A k \in 1..Len(list) : list[k] = SnapDoc(tickets, list[k].id)
    /\ \A k, l \in 1..Len(list) : k < l => list[k].createdAt >= list[l].createdAt

\* C16: every list getAllTickets delivers is the whole ticket collection, and
\* every list getMyTickets delivers is the whole set of tickets with the
\* subscription's clientId; each is the complete current list, newest first.
C16_DeliversFullOrderedList ==
    /\ lastOp.op = "getAllTickets" => IsFullListOf(adminHome.tickets, 1..Len(tickets))
    /\ lastOp.op = "getMyTickets" =>
          IsFullListOf(clientHome.tickets,
                       {i \in 1..Len(tickets) : tickets[i].clientId = lastOp.id})

\* two tickets delivered at once, the later one first
C16_Witness ==
    /\ lastOp.op = "getAllTickets"
    /\ Len(adminHome.tickets) = 2
    /\ adminHome.tickets[1].id = 2
    /\ adminHome.tickets[1].createdAt > adminHome.tickets[2].createdAt

\* C18: a home screen's subscription ends in the very step in which the screen
\* leaves the tree, and in no other step: no subscription is held for a
\* screen that is not rendered, and a held subscription is never ended or
\* replaced while its screen stays.
C18_UnsubscribedAtTeardown ==
    /\ [](/\ Screen # "ClientApp" => (~clientHome.mounted /\ clientHome.sub = <<>>)
          /\ Screen # "DeveloperApp" => (~adminHome.mounted /\ adminHome.sub = <<>>))
    /\ [][/\ (clientHome.sub # <<>> /\ clientHome'.sub # clientHome.sub) =>
               (clientHome.mounted /\ ~clientHome'.mounted /\ clientHome'.sub = <<>>)
          /\ (adminHome.sub # <<>> /\ adminHome'.sub # adminHome.sub) =>
               (adminHome.mounted /\ ~adminHome'.mounted /\ adminHome'.sub = <<>>)]_vars

\* the client screens, with a delivered ticket, were just torn down
C18_Witness ==
    /\ lastOp.op = "onAuthStateChanged"
    /\ lastOp.val = "ClientApp"
    /\ Len(tickets) = 1
    /\ Screen = "Auth"
    /\ clientHome.sub = <<>>

\* what the claim says signIn throws for credentials and a service fault
C19_Expected(email, password, fault, res) ==
    IF fault # ""
    THEN res \notin {"ok", "", "Incorrect password", "No account found with this email",
                     "Invalid email address", "Email and password are required"}
    ELSE IF email = BadEmail THEN res = "Invalid email address"
    ELSE IF \A u \in Uids : ~(accounts[u].exists /\ accounts[u].email = email)
    THEN res = "No account found with this email"
    ELSE res = "Incorrect password"

\* C19: signIn throws 'Incorrect password' for a wrong password on an existing
\* account, 'No account found with this email' for an unknown email, 'Invalid
\* email address' for a malformed one and another message for any other
\* failure of the service; with an empty email or password it throws before
\* calling the service; a failing signIn leaves the session as it was.
C19_SignInFailures ==
    [][/\ \A i \in 1..Len(signins), f \in SignInFaults :
            (/\ SignInReturn(i, f)
             /\ \/ f # ""
                \/ \A u \in Uids : ~(/\ accounts[u].exists
                                      /\ accounts[u].email = signins[i].email
                                      /\ accounts[u].password = signins[i].password)) =>
                /\ lastOp'.op = "signIn"
                /\ C19_Expected(signins[i].email, signins[i].password, f, lastOp'.res)
                /\ UNCHANGED <<accounts, users, authUser, authEvent, handlers, router>>
       /\ \A in \in SignInInputs :
            (SignInCall(in[1], in[2]) /\ (in[1] = "" \/ in[2] = "")) =>
                /\ lastOp'.op = "signIn"
                /\ lastOp'.res = "Email and password are required"
                /\ UNCHANGED <<accounts, users, authUser, authEvent, handlers, router,
                               signins>>]_vars

\* a wrong password for a registered account was refused
C19_Witness ==
    /\ lastOp.op = "signIn"
    /\ lastOp.res = "Incorrect password"
    /\ accounts[1].exists
    /\ signins = <<>>

\* C20 (as claimed): every stored ticket has a title and a description that
\* are non-empty after trimming.
C20_StoredTextNonEmpty ==
    \A k \in 1..Len(tickets) :
        Trim(tickets[k].title) # <<>> /\ Trim(tickets[k].description) # <<>>

\* C21: when createTicket's read of the caller's profile fails, or the profile
\* has no name, the call goes on to the add with clientName equal to the
\* caller's email and nothing is stored or dropped by that step; the add then
\* stores the ticket under the name the call settled on.
C21_NameLookupNeverAborts ==
    [][/\ \A i \in 1..Len(creates), f \in BOOLEAN :
            (/\ CreateGetName(i, f)
             /\ (f \/ ~users[creates[i].uid].exists \/ users[creates[i].uid].name = ""))
            => /\ Len(creates') = Len(creates)
               /\ creates'[i].pc = "add"
               /\ creates'[i].clientName = EmailOf(creates[i].caller)
               /\ creates'[i].clientName # ""
               /\ tickets' = tickets
       /\ \A i \in 1..Len(creates) :
            CreateAdd(i, FALSE)
            => /\ Len(tickets') = Len(tickets) + 1
               /\ tickets'[Len(tickets')].clientName = creates[i].clientName]_vars

\* a stored ticket whose owner has a profile with a name, and whose
\* clientName is the owner's email: the lookup failed and the add went ahead
C21_Witness ==
    \E k \in 1..Len(tickets) :
        /\ tickets[k].clientName = tickets[k].clientEmail
        /\ tickets[k].clientEmail = EmailOf(tickets[k].clientId)
        /\ users[tickets[k].clientId].name = "Ann"

NotAuthenticated == "You must be logged in to create a ticket"

\* C22: a createTicket call made with no current user, an empty field or a
\* type other than bug and feature throws before any remote call: no profile
\* read and no add is started, and accounts, profiles and tickets are as
\* before; with no current user the error is the not-logged-in one whatever
\* the other arguments are.  The same holds of the call handleSubmit makes.
C22_FailedCreateTouchesNothing ==
    [][/\ \A in \in CreateTicketInputs :
            (/\ createTicket(in[1], in[2], in[3])
             /\ (\/ authUser = NoUser
                 \/ in[1] = <<>> \/ in[2] = <<>> \/ in[3] \notin TicketTypes))
            => /\ lastOp'.op = "createTicket"
               /\ lastOp'.res # "ok"
               /\ authUser = NoUser => lastOp'.res = NotAuthenticated
               /\ UNCHANGED <<backend, creates, clientHome, adminHome>>
       /\ \A in \in SubmitInputs :
            (handleSubmit(in[1], in[2], in[3]) /\ in[3] \notin TicketTypes)
            => UNCHANGED <<backend, creates, clientHome, adminHome>>
       /\ (lastOp'.op = "createTicket" /\ lastOp'.res # "ok")
            => UNCHANGED <<backend, creates, clientHome, adminHome>>]_vars

\* createTicket has just been refused for want of a current user, with
\* tickets in the store
C22_Witness ==
    /\ lastOp.op = "createTicket"
    /\ lastOp.res = NotAuthenticated
    /\ authUser = NoUser
    /\ tickets # <<>>

\* the fields of a ticket that a status update has no business with
CreationFields(t) ==
    <<t.clientId, t.clientName, t.clientEmail, t.title, t.description, t.type,
      t.createdAt>>

\* C23: no step deletes a ticket or changes the clientId, clientName,
\* clientEmail, title, description, type or createdAt of a stored ticket; a
\* successful updateTicketStatus(id, s), on this device or another, leaves
\* the number of tickets and every other ticket as they were and changes, of
\* ticket id, the status (to s) and updatedAt only.
C23_StatusUpdateFrame ==
    [][/\ Len(tickets') >= Len(tickets)
       /\ \A k \in 1..Len(tickets) : CreationFields(tickets'[k]) = CreationFields(tickets[k])
       /\ \A id \in 1..MaxStoreTickets, s \in StatusInputs :
            (\/ RemoteUpdateTicketStatus(id, s)
             \/ (/\ lastOp' = Op("updateTicketStatus", "ok", NoUser, id, s)
                 /\ \E f \in BOOLEAN : handleStatusUpdate(s, f)))
            => /\ Len(tickets') = Len(tickets)
               /\ \A k \in 1..Len(tickets) : k # id => tickets'[k] = tickets[k]
               /\ tickets'[id].status = s
               /\ tickets'[id].updatedAt = now
               /\ UNCHANGED <<accounts, users>>]_vars

\* the admin on this device has just resolved one of two stored tickets
C23_Witness ==
    /\ lastOp.op = "updateTicketStatus"
    /\ lastOp.res = "ok"
    /\ Len(tickets) = 2
    /\ tickets[lastOp.id].status = "resolved"
    /\ tickets[lastOp.id].updatedAt > tickets[lastOp.id].createdAt
    /\ \E k \in 1..Len(tickets) : k # lastOp.id /\ tickets[k].updatedAt = 0

\* C24: onRefresh of a home screen sets the screen's refreshing flag and
\* nothing else: the list shown, the subscription and what is due on it, the
\* store and every in-flight call are as before; and a mounted screen's
\* refreshing flag goes from set to clear only in a step in which its own
\* subscription, the one it held before the step, delivers data or an error.
C24_RefreshOnlySetsFlag ==
    [][/\ \A s \in HomeScreens :
            onRefresh(s)
            => /\ clientHome' = IF s = "ClientApp"
                                THEN [clientHome EXCEPT !.refreshing = TRUE]
                                ELSE clientHome
               /\ adminHome' = IF s = "DeveloperApp"
                               THEN [adminHome EXCEPT !.refreshing = TRUE]
                               ELSE adminHome
               /\ UNCHANGED <<backend, authUser, authEvent, router, handlers, signups,
                              signins, creates, detail, form>>
       /\ (clientHome.refreshing /\ clientHome'.mounted /\ ~clientHome'.refreshing)
            => /\ clientHome.sub # <<>>
               /\ lastOp'.op = "getMyTickets"
               /\ lastOp'.id = clientHome.sub[1]
               /\ UNCHANGED adminHome
       /\ (adminHome.refreshing /\ adminHome'.mounted /\ ~adminHome'.refreshing)
            => /\ adminHome.sub # <<>>
               /\ lastOp'.op = "getAllTickets"
               /\ UNCHANGED clientHome]_vars

\* a refresh was pulled on a list of tickets that is up to date: the flag is
\* set, nothing is due on the subscription, the list is as it was delivered
C24_Witness ==
    /\ clientHome.refreshing
    /\ clientHome.sub = <<authUser>>
    /\ ~clientHome.dirty
    /\ clientHome.tickets # <<>>
    /\ clientHome.tickets = MyTicketsQuery(tickets, authUser)

\* C25 (as claimed): once every session notification has been handed to the
\* router, a router showing the client or the admin screens holds the
\* identity that is signed in, and shows the screens of that identity's
\* profile role.
C25_RouterMatchesSession ==
    (Idle /\ Screen \in HomeScreens) =>
        /\ authUser = user
        /\ users[user].exists
        /\ userRole = users[user].role

\* C26 (as claimed): the signOut a handler issues after getUserRole failed
\* for its identity ends no session but that identity's.
C26_ForcedSignOutEndsOwnSession ==
    [][(/\ lastOp'.op = "onAuthStateChanged"
        /\ lastOp'.res = "signed out"
        /\ authUser # NoUser /\ authUser' = NoUser)
       => authUser = lastOp'.id]_vars

\* C27 (as claimed): when signUp returns successfully, the identity it
\* registered is the one signed in.
C27_RegisteredStaysSignedIn ==
    (lastOp.op = "signUp" /\ lastOp.res = "ok") => authUser = lastOp.id

HandlerOutcomes == {"ok", "signed out", "Failed to sign out"}

\* C29: the router leaves loading: the handling of the notification it starts
\* with comes to an end, and the state in which a handler ends - no identity,
\* role resolved, role not resolved and signed out, role not resolved and the
\* sign-out failed - is never loading; a router that is not loading does not
\* load again.
C29_FirstHandlingEndsLoading ==
    /\ <>(~loading)
    /\ [](lastOp.op = "onAuthStateChanged" =>
            (~loading /\ lastOp.res \in HandlerOutcomes))
    /\ [][~loading => ~loading']_vars

\* the start-up handler of a restored identity without a profile has just
\* ended with its forced sign-out failing
C29_Witness ==
    /\ lastOp.op = "onAuthStateChanged"
    /\ lastOp.res = "Failed to sign out"
    /\ authUser = lastOp.id
    /\ user = NoUser
    /\ error \in RoleErrors
    /\ ~loading
    /\ Screen = "Auth"

\* what the user has entered in the form
Fields(f) == <<f.title, f.description, f.type>>

\* C30: at most one createTicket call of the form is in flight, the form is
\* loading exactly while it is, and a call adds at most one ticket; when a
\* call ends loading is false; after a successful call the fields hold their
\* defaults; after a failed call, and after a Submit that was refused, the
\* fields are as they were before the step: they change only when the user
\* edits them, when a call succeeds and when the screen is taken down.
C30_OneSubmissionInFlight ==
    /\ [](Len(creates) <= 1)
    /\ []((Screen = "ClientApp") => (form.loading <=> creates # <<>>))
    /\ [][/\ Len(tickets') <= Len(tickets) + 1
          /\ Len(tickets') # Len(tickets) => Len(creates') = Len(creates) - 1
          /\ Len(creates') < Len(creates) =>
               /\ ~form'.loading
               /\ form' = IF Len(tickets') # Len(tickets) THEN FormInit
                          ELSE [form EXCEPT !.loading = FALSE]
          /\ Fields(form') # Fields(form) =>
               \/ Len(tickets') = Len(tickets) + 1 /\ Fields(form') = Fields(FormInit)
               \/ Screen = "ClientApp" /\ Render(user', userRole', loading') # "ClientApp"
               \/ \E in \in SubmitInputs : setFields(in[1], in[2], in[3])]_vars

\* a second ticket has just been stored for a form that was filled in twice,
\* and the user has typed on since: the fields are at their defaults again
C30_Witness ==
    /\ lastOp.op = "createTicket" /\ lastOp.res = "ok"
    /\ Len(tickets) = MaxTickets + 1
    /\ tickets[1].type # tickets[2].type
    /\ Screen = "ClientApp"
    /\ form = FormInit

====
